---- MODULE Spec2Model ----
(***************************************************************************)
(* Model of the Cyberpunk 2077 Breach Protocol solver                      *)
(* (src/coreSolver-testing.js, class BreachProtocol).                      *)
(*                                                                         *)
(* Rows, columns and sequence indices are 0-based as in the source; TLA+   *)
(* sequences are 1-based, so element i of a JavaScript array a is a[i+1].  *)
(* A JavaScript Set is modelled by the sequence of its elements in         *)
(* insertion order (the order Array.from gives back), without duplicates.  *)
(* The position key `${row},${col}` is modelled by the pair <<row, col>>.  *)
(* explorePath is a pure recursive function and is an operator here; its  *)
(* value carries, next to the returned Solution, the list of invocations   *)
(* made below it, which the variable calls keeps for the latest top-row    *)
(* start so that properties of every node of the search can be stated.     *)
(*                                                                         *)
(* Spec runs solve on one input.  FairSpec is Spec with the loop of solve  *)
(* scheduled fairly.  FnSpec applies the two helper functions              *)
(* isSubsequence and evaluateMove to arguments of their own.               *)
(*                                                                         *)
(* The programs around the solver have a specification each: CliSpec the   *)
(* interactive command line (src/unnamed/part_000), HttpSpec the POST      *)
(* /solve route (src/unnamed/part_001), OcrSpec the OCR worker object      *)
(* (BreachProtocolOCRupdatedAgain.js) and OcrCliSpec the OCR command line  *)
(* (cyberpunk-ocr-cli.js).  Each keeps its state in one record variable;   *)
(* the variables of the programs a specification does not run stay NULL.   *)
(***************************************************************************)
EXTENDS Naturals, Integers, Sequences, FiniteSets, TLC

VARIABLES codeMatrix, requiredSequences, bufferSize, size,
          col, solutions, calls, result, pc, fnArgs, fnOut,
          cli, http, ocr, ocrCli

vars == <<codeMatrix, requiredSequences, bufferSize, size,
          col, solutions, calls, result, pc, fnArgs, fnOut,
          cli, http, ocr, ocrCli>>

\* the state of the programs around the solver
appVars == <<cli, http, ocr, ocrCli>>

(***************************************************************************)
(* Bounds of the model                                                     *)
(***************************************************************************)
\* largest grid is MaxN x MaxN
MaxN == 2
\* largest number of tokens in requiredSequences, all sequences together
MaxSeqTokens == 1
\* largest bufferSize
MaxBuf == 5
\* longest array handed to isSubsequence and evaluateMove directly
MaxFnLen == 3
\* largest number of tokens in the sequences handed to them directly
MaxFnTokens == 3

Tokens == {"AA", "BB"}

(***************************************************************************)
(* The worked example of main()                                            *)
(***************************************************************************)
mainCodeMatrix ==
    << <<"7A", "BD", "E9", "7A", "7A", "E9", "BD">>,
       <<"7A", "55", "BD", "55", "1C", "1C", "7A">>,
       <<"FF", "BD", "7A", "FF", "7A", "1C", "BD">>,
       <<"E9", "1C", "55", "55", "1C", "1C", "55">>,
       <<"7A", "E9", "E9", "55", "1C", "55", "55">>,
       <<"E9", "55", "7A", "E9", "55", "55", "55">>,
       <<"BD", "1C", "1C", "FF", "1C", "FF", "BD">> >>

mainRequiredSequences == << <<"55", "1C">>, <<"7A", "E9">> >>

mainBufferSize == 8

(***************************************************************************)
(* Inputs                                                                  *)
(***************************************************************************)
SquareGrids == UNION {[1..n -> [1..n -> Tokens]] : n \in 1..MaxN}

TokenLists == UNION {[1..n -> Tokens] : n \in 1..MaxSeqTokens}

RECURSIVE TotalTokens(_, _)
TotalTokens(list, k) ==
    IF k > Len(list) THEN 0 ELSE Len(list[k]) + TotalTokens(list, k + 1)

\* every list of non-empty token lists with at most MaxSeqTokens tokens
SequenceLists ==
    UNION {{list \in [1..n -> TokenLists] : TotalTokens(list, 1) <= MaxSeqTokens} :
           n \in 0..MaxSeqTokens}

\* Scenario A of the specification: <<grid, sequences, bufferSize>>
scenarioAInput ==
    << << <<"AA", "BB">>, <<"BB", "AA">> >>, << <<"AA", "AA">> >>, 2 >>

\* Scenario D of the specification: the first required sequence is longer
\* than bufferSize, the second is not
scenarioDInput ==
    << << <<"AA", "AA", "AA">>, <<"AA", "AA", "AA">>, <<"BB", "BB", "BB">> >>,
       << <<"AA", "BB", "AA", "BB", "AA">>, <<"BB">> >>, 4 >>

\* a 2x2 grid with bufferSize 5: the four cells run out before the buffer is
\* full, the first sequence is on every path and the second on none
deadEndInput ==
    << << <<"AA", "AA">>, <<"AA", "AA">> >>, << <<"AA">>, <<"BB">> >>, 5 >>

Inputs ==
    {<<g, s, b>> : g \in SquareGrids, s \in SequenceLists, b \in 1..MaxBuf}
    \cup {<<mainCodeMatrix, mainRequiredSequences, mainBufferSize>>,
          scenarioAInput, scenarioDInput, deadEndInput}

(***************************************************************************)
(* Values                                                                  *)
(***************************************************************************)
NULL == [isNull |-> TRUE]

\* variant: the value is read with row and column exchanged
Position_Transposed(row, c) == [row |-> row, col |-> c, value |-> codeMatrix[c + 1][row + 1]]

\* lines 20-25, 89-93, 101-105
Position(row, c) == [row |-> row, col |-> c, value |-> codeMatrix[row + 1][c + 1]]

Solution(path, completedSequences) ==
    [path |-> path, completedSequences |-> completedSequences]

Has(set, x) == \E k \in 1..Len(set) : set[k] = x

Add(set, x) == IF Has(set, x) THEN set ELSE Append(set, x)

(***************************************************************************)
(* isSubsequence: two-pointer scan                                         *)
(***************************************************************************)
\* variant: a mismatch starts the match over, so only contiguous runs count
RECURSIVE isSubsequenceScan_Contiguous(_, _, _, _)
isSubsequenceScan_Contiguous(array, subsequence, i, subIdx) ==
    IF i < Len(array) /\ subIdx < Len(subsequence)
    THEN isSubsequenceScan_Contiguous(array, subsequence, i + 1,
             IF array[i + 1] = subsequence[subIdx + 1] THEN subIdx + 1
             ELSE IF array[i + 1] = subsequence[1] THEN 1 ELSE 0)
    ELSE subIdx

\* lines 152-158
RECURSIVE isSubsequenceScan(_, _, _, _)
isSubsequenceScan(array, subsequence, i, subIdx) ==
    IF i < Len(array) /\ subIdx < Len(subsequence)
    THEN isSubsequenceScan(array, subsequence, i + 1,
             IF array[i + 1] = subsequence[subIdx + 1] THEN subIdx + 1 ELSE subIdx)
    ELSE subIdx

\* variant: the final comparison is off by one
isSubsequence_OffByOne(array, subsequence) ==
    isSubsequenceScan(array, subsequence, 0, 0) >= Len(subsequence) - 1

\* variant: the final comparison is <= instead of ===
isSubsequence_AtMost(array, subsequence) ==
    isSubsequenceScan(array, subsequence, 0, 0) <= Len(subsequence)

\* lines 151-161
isSubsequence(array, subsequence) ==
    isSubsequenceScan(array, subsequence, 0, 0) = Len(subsequence)

(***************************************************************************)
(* evaluateMove: lower is better                                           *)
(***************************************************************************)
RECURSIVE matchCountScan(_, _, _, _)
matchCountScan(testPath, sequence, pathIdx, seqIdx) ==
    IF seqIdx < Len(sequence) /\ pathIdx < Len(testPath)
    THEN matchCountScan(testPath, sequence, pathIdx + 1,
             IF testPath[pathIdx + 1] = sequence[seqIdx + 1] THEN seqIdx + 1 ELSE seqIdx)
    ELSE seqIdx

\* variant: sequences already completed are scored like the others
RECURSIVE evaluateMoveLoop_IgnoresCompleted(_, _, _, _, _)
evaluateMoveLoop_IgnoresCompleted(currentPath, nextValue, completedSequences, i, score) ==
    IF i < Len(requiredSequences)
    THEN LET sequence == requiredSequences[i + 1]
             testPath == Append(currentPath, nextValue)
             matchCount == matchCountScan(testPath, sequence, 0, 0)
             newScore == IF matchCount = Len(sequence) THEN score - 1000
                         ELSE score - matchCount * 10
         IN evaluateMoveLoop_IgnoresCompleted(currentPath, nextValue,
                                              completedSequences, i + 1, newScore)
    ELSE score

\* lines 171-199
RECURSIVE evaluateMoveLoop(_, _, _, _, _)
evaluateMoveLoop(currentPath, nextValue, completedSequences, i, score) ==
    IF i < Len(requiredSequences)
    THEN LET sequence == requiredSequences[i + 1]
             testPath == Append(currentPath, nextValue)
             matchCount == matchCountScan(testPath, sequence, 0, 0)
             newScore == IF Has(completedSequences, i) THEN score
                         ELSE IF matchCount = Len(sequence) THEN score - 1000
                         ELSE score - matchCount * 10
         IN evaluateMoveLoop(currentPath, nextValue, completedSequences, i + 1, newScore)
    ELSE score

evaluateMove(currentPath, nextValue, completedSequences) ==
    evaluateMoveLoop(currentPath, nextValue, completedSequences, 0, 0)

(***************************************************************************)
(* explorePath                                                             *)
(***************************************************************************)
Values(path) == [k \in 1..Len(path) |-> path[k].value]

\* lines 61-70: copy of the received set, then every sequence not yet in
\* it that the path values contain is added, in index order
RECURSIVE checkCompleted(_, _, _, _)
checkCompleted(pathValues, completedSequences, i, newCompletedSequences) ==
    IF i < Len(requiredSequences)
    THEN checkCompleted(pathValues, completedSequences, i + 1,
             IF ~Has(completedSequences, i)
                /\ isSubsequence(pathValues, requiredSequences[i + 1])
             THEN Add(newCompletedSequences, i)
             ELSE newCompletedSequences)
    ELSE newCompletedSequences

\* variant: the two directions are exchanged
possibleMovesOf_Swapped(lastPos, visited, nextDirection) ==
    IF nextDirection = "col"
    THEN SelectSeq([k \in 1..size |-> Position(lastPos.row, k - 1)],
                   LAMBDA p : <<p.row, p.col>> \notin visited)
    ELSE SelectSeq([k \in 1..size |-> Position(k - 1, lastPos.col)],
                   LAMBDA p : <<p.row, p.col>> \notin visited)

\* variant: visited cells are not filtered out
possibleMovesOf_NoVisited(lastPos, visited, nextDirection) ==
    IF nextDirection = "col"
    THEN [k \in 1..size |-> Position(k - 1, lastPos.col)]
    ELSE [k \in 1..size |-> Position(lastPos.row, k - 1)]

\* lines 84-108: the unvisited cells of the last position's column
\* (nextDirection 'col') or row (otherwise), in increasing index order
possibleMovesOf(lastPos, visited, nextDirection) ==
    IF nextDirection = "col"
    THEN SelectSeq([k \in 1..size |-> Position(k - 1, lastPos.col)],
                   LAMBDA p : <<p.row, p.col>> \notin visited)
    ELSE SelectSeq([k \in 1..size |-> Position(lastPos.row, k - 1)],
                   LAMBDA p : <<p.row, p.col>> \notin visited)

\* variant: the moves are tried in grid order, without the heuristic sort
sortMoves_Unsorted(moves, pathValues, newCompletedSequences, k, sorted) == moves

\* lines 111-114: Array.prototype.sort is stable; the comparator orders by
\* ascending evaluateMove score
RECURSIVE sortMoves(_, _, _, _, _)
sortMoves(moves, pathValues, newCompletedSequences, k, sorted) ==
    IF k > Len(moves) THEN sorted
    ELSE LET m == moves[k]
             score == evaluateMove(pathValues, m.value, newCompletedSequences)
             before == Cardinality({j \in 1..Len(sorted) :
                          evaluateMove(pathValues, sorted[j].value,
                                       newCompletedSequences) <= score})
         IN sortMoves(moves, pathValues, newCompletedSequences, k + 1,
                      SubSeq(sorted, 1, before) \o <<m>>
                          \o SubSeq(sorted, before + 1, Len(sorted)))

\* variant: the first Solution found is kept
Better_FirstWins(solution, bestSolution) == bestSolution = NULL

\* lines 128-131
Better(solution, bestSolution) ==
    \/ bestSolution = NULL
    \/ Len(solution.completedSequences) > Len(bestSolution.completedSequences)
    \/ /\ Len(solution.completedSequences) = Len(bestSolution.completedSequences)
       /\ Len(solution.path) < Len(bestSolution.path)

\* variant: the buffer test lets one more position through
bufferUsedUp_Late(currentPath) == Len(currentPath) > bufferSize

\* line 52
bufferUsedUp(currentPath) == Len(currentPath) >= bufferSize

\* variant: the copy of the received set is forgotten
newCompletedOf_Fresh(pathValues, completedSequences) ==
    checkCompleted(pathValues, completedSequences, 0, <<>>)

\* lines 60-70
newCompletedOf(pathValues, completedSequences) ==
    checkCompleted(pathValues, completedSequences, 0, completedSequences)

\* variant: an empty list of required sequences never counts as completed
allCompleted_NonEmpty(newCompletedSequences) ==
    /\ Len(requiredSequences) > 0
    /\ Len(newCompletedSequences) = Len(requiredSequences)

\* variant: the comparison is strict, so the node never stops here
allCompleted_Never(newCompletedSequences) ==
    Len(newCompletedSequences) > Len(requiredSequences)

\* line 73
allCompleted(newCompletedSequences) ==
    Len(newCompletedSequences) = Len(requiredSequences)

\* one invocation of explorePath: its arguments and, once it has returned,
\* what it returned (NULL or a Solution)
Call(currentPath, visited, nextDirection, completedSequences) ==
    [path |-> currentPath, nextDirection |-> nextDirection,
     completedSequences |-> completedSequences, returned |-> NULL]

\* the invocation at the head of callsSoFar returns solution
Return(solution, callsSoFar) ==
    [solution |-> solution,
     calls |-> [callsSoFar EXCEPT ![1].returned = solution]]

\* The result of explorePath is the record [solution, calls]: solution is
\* the returned Solution or NULL, calls lists every invocation made in the
\* subtree, in call order, this one first.
RECURSIVE explorePath(_, _, _, _), tryMoves(_, _, _, _, _, _, _, _)
explorePath(currentPath, visited, nextDirection, completedSequences) ==
    LET self == <<Call(currentPath, visited, nextDirection, completedSequences)>>
    IN
    IF bufferUsedUp(currentPath)
    THEN Return(Solution(currentPath, completedSequences), self)
    ELSE
    LET pathValues == Values(currentPath)
        newCompletedSequences == newCompletedOf(pathValues, completedSequences)
    IN
    IF allCompleted(newCompletedSequences)
    THEN Return(Solution(currentPath, newCompletedSequences), self)
    ELSE
    LET lastPos == currentPath[Len(currentPath)]
        possibleMoves ==
            sortMoves(possibleMovesOf(lastPos, visited, nextDirection),
                      pathValues, newCompletedSequences, 1, <<>>)
    IN tryMoves(currentPath, visited, nextDirection, newCompletedSequences,
                possibleMoves, 1, NULL, self)

\* lines 117-142: the loop over the sorted moves
tryMoves(currentPath, visited, nextDirection, newCompletedSequences, possibleMoves, k, bestSolution, callsSoFar) ==
    IF k > Len(possibleMoves)
    THEN Return(bestSolution, callsSoFar)
    ELSE
    LET move == possibleMoves[k]
        newPath == Append(currentPath, move)
        newVisited == visited \cup {<<move.row, move.col>>}
        nextDir == IF nextDirection = "row" THEN "col" ELSE "row"
        sub == explorePath(newPath, newVisited, nextDir, newCompletedSequences)
        solution == sub.solution
        allCalls == callsSoFar \o sub.calls
    IN
    IF solution = NULL
    THEN tryMoves(currentPath, visited, nextDirection, newCompletedSequences,
                  possibleMoves, k + 1, bestSolution, allCalls)
    ELSE IF Len(solution.completedSequences) = Len(requiredSequences)
    THEN Return(solution, allCalls)
    ELSE tryMoves(currentPath, visited, nextDirection, newCompletedSequences,
                  possibleMoves, k + 1,
                  IF Better(solution, bestSolution) THEN solution ELSE bestSolution,
                  allCalls)

(***************************************************************************)
(* solve                                                                   *)
(***************************************************************************)
\* variant: solutions with equal counts come out in reverse order
RECURSIVE sortSolutions_Unstable(_, _, _)
sortSolutions_Unstable(sols, k, sorted) ==
    IF k > Len(sols) THEN sorted
    ELSE LET s == sols[k]
             before == Cardinality({j \in 1..Len(sorted) :
                          Len(sorted[j].completedSequences)
                              > Len(s.completedSequences)})
         IN sortSolutions_Unstable(sols, k + 1,
                          SubSeq(sorted, 1, before) \o <<s>>
                              \o SubSeq(sorted, before + 1, Len(sorted)))

\* line 38: stable sort, descending by number of completed sequences
RECURSIVE sortSolutions(_, _, _)
sortSolutions(sols, k, sorted) ==
    IF k > Len(sols) THEN sorted
    ELSE LET s == sols[k]
             before == Cardinality({j \in 1..Len(sorted) :
                          Len(sorted[j].completedSequences)
                              >= Len(s.completedSequences)})
         IN sortSolutions(sols, k + 1,
                          SubSeq(sorted, 1, before) \o <<s>>
                              \o SubSeq(sorted, before + 1, Len(sorted)))

EmptySolution == Solution(<<>>, <<>>)

Init ==
    /\ \E inp \in Inputs :
          /\ codeMatrix = inp[1]
          /\ requiredSequences = inp[2]
          /\ bufferSize = inp[3]
          /\ size = Len(inp[1])
    /\ col = 0
    /\ solutions = <<>>
    /\ calls = <<>>
    /\ result = NULL
    /\ pc = "loop"
    /\ fnArgs = NULL
    /\ fnOut = NULL
    /\ cli = NULL /\ http = NULL /\ ocr = NULL /\ ocrCli = NULL

\* lines 19-31: one iteration of the loop over the top row; calls keeps
\* the explorePath invocations of this iteration
SolveStart ==
    /\ pc = "loop"
    /\ col < size
    /\ LET initialPath == <<Position(0, col)>>
           r == explorePath(initialPath, {<<0, col>>}, "col", <<>>)
       IN /\ solutions' = IF r.solution # NULL
                          THEN Append(solutions, r.solution)
                          ELSE solutions
          /\ calls' = r.calls
    /\ col' = col + 1
    /\ UNCHANGED <<codeMatrix, requiredSequences, bufferSize, size, result, pc,
                   fnArgs, fnOut, appVars>>

\* lines 33-39: pick the result
SolveReturn ==
    /\ pc = "loop"
    /\ col = size
    /\ result' = IF Len(solutions) = 0
                 THEN EmptySolution
                 ELSE sortSolutions(solutions, 1, <<>>)[1]
    /\ pc' = "done"
    /\ UNCHANGED <<codeMatrix, requiredSequences, bufferSize, size,
                   col, solutions, calls, fnArgs, fnOut, appVars>>

Next == SolveStart \/ SolveReturn

Spec == Init /\ [][Next]_vars

(***************************************************************************)
(* The same search with the moves of every node taken in another order     *)
(***************************************************************************)
Reverse(seq) == [k \in 1..Len(seq) |-> seq[Len(seq) + 1 - k]]

\* lines 110-114, with the order as a parameter: "heuristic" is the sort of
\* the source, "grid" leaves the moves as lines 84-108 generated them,
\* "reverse" is the grid order backwards
orderMoves(order, moves, pathValues, newCompletedSequences) ==
    CASE order = "heuristic" -> sortMoves(moves, pathValues, newCompletedSequences, 1, <<>>)
      [] order = "grid" -> moves
      [] order = "reverse" -> Reverse(moves)

\* lines 50-143 with orderMoves in place of the sort; the value is the
\* returned Solution or NULL
RECURSIVE explorePathIn(_, _, _, _, _), tryMovesIn(_, _, _, _, _, _, _, _)
explorePathIn(order, currentPath, visited, nextDirection, completedSequences) ==
    IF bufferUsedUp(currentPath)
    THEN Solution(currentPath, completedSequences)
    ELSE
    LET pathValues == Values(currentPath)
        newCompletedSequences == newCompletedOf(pathValues, completedSequences)
    IN
    IF allCompleted(newCompletedSequences)
    THEN Solution(currentPath, newCompletedSequences)
    ELSE
    LET lastPos == currentPath[Len(currentPath)]
        possibleMoves ==
            orderMoves(order, possibleMovesOf(lastPos, visited, nextDirection),
                       pathValues, newCompletedSequences)
    IN tryMovesIn(order, currentPath, visited, nextDirection,
                  newCompletedSequences, possibleMoves, 1, NULL)

\* lines 117-142
tryMovesIn(order, currentPath, visited, nextDirection, newCompletedSequences, possibleMoves, k, bestSolution) ==
    IF k > Len(possibleMoves)
    THEN bestSolution
    ELSE
    LET move == possibleMoves[k]
        newPath == Append(currentPath, move)
        newVisited == visited \cup {<<move.row, move.col>>}
        nextDir == IF nextDirection = "row" THEN "col" ELSE "row"
        solution == explorePathIn(order, newPath, newVisited, nextDir,
                                  newCompletedSequences)
    IN
    IF solution = NULL
    THEN tryMovesIn(order, currentPath, visited, nextDirection,
                    newCompletedSequences, possibleMoves, k + 1, bestSolution)
    ELSE IF Len(solution.completedSequences) = Len(requiredSequences)
    THEN solution
    ELSE tryMovesIn(order, currentPath, visited, nextDirection,
                    newCompletedSequences, possibleMoves, k + 1,
                    IF Better(solution, bestSolution) THEN solution ELSE bestSolution)

\* lines 19-31: the Solutions of the top-row starts c, c + 1, ...
RECURSIVE solutionsIn(_, _, _)
solutionsIn(order, c, found) ==
    IF c >= size THEN found
    ELSE LET solution == explorePathIn(order, <<Position(0, c)>>, {<<0, c>>}, "col", <<>>)
         IN solutionsIn(order, c + 1,
                        IF solution # NULL THEN Append(found, solution) ELSE found)

\* lines 15-40
solveIn(order) ==
    LET found == solutionsIn(order, 0, <<>>)
    IN IF Len(found) = 0 THEN EmptySolution ELSE sortSolutions(found, 1, <<>>)[1]

\* line 19: the for loop of solve moves on to the next column
LoopStep == pc = "loop" /\ col < size /\ col' = col + 1

\* lines 33-39: solve leaves the loop and returns
ReturnStep == pc = "loop" /\ col = size /\ pc' = "done"

\* solve is one synchronous call: once started, each iteration of its loop
\* and the return after it are executed.  SolveStart is the only step that
\* changes col and SolveReturn the only one that changes pc, so this is
\* weak fairness of the two actions, stated on the control variables.
FairSpec == Spec /\ WF_col(LoopStep) /\ WF_pc(ReturnStep)

(***************************************************************************)
(* The helper functions applied on their own                               *)
(***************************************************************************)
ArraysUpTo(n) == UNION {[1..k -> Tokens] : k \in 0..n}

\* every list of non-empty token lists with at most MaxFnTokens tokens
FnSequenceLists ==
    UNION {{list \in [1..n -> UNION {[1..k -> Tokens] : k \in 1..MaxFnTokens}] :
               TotalTokens(list, 1) <= MaxFnTokens} :
           n \in 0..MaxFnTokens}

\* the sets of indices below n, each as the list of its elements
IndexSets(n) ==
    {c \in UNION {[1..k -> 0..(n - 1)] : k \in 0..n} :
        \A j \in 1..(Len(c) - 1) : c[j] < c[j + 1]}

isSubsequenceArgs ==
    {[fn |-> "isSubsequence", array |-> a, subsequence |-> sub] :
        a \in ArraysUpTo(MaxFnLen), sub \in ArraysUpTo(MaxFnTokens)}

evaluateMoveArgs(sequences) ==
    {[fn |-> "evaluateMove", currentPath |-> a, nextValue |-> t, completedSequences |-> c] :
        a \in ArraysUpTo(MaxFnLen), t \in Tokens, c \in IndexSets(Len(sequences))}

\* a BreachProtocol object whose grid plays no part, and the arguments of
\* one call of a helper function
FnInit ==
    /\ codeMatrix = <<>>
    /\ size = 0
    /\ bufferSize = MaxBuf
    /\ \/ /\ requiredSequences = <<>>
          /\ fnArgs \in isSubsequenceArgs
       \/ /\ requiredSequences \in FnSequenceLists
          /\ fnArgs \in evaluateMoveArgs(requiredSequences)
    /\ fnOut = NULL
    /\ cli = NULL /\ http = NULL /\ ocr = NULL /\ ocrCli = NULL
    /\ col = 0
    /\ solutions = <<>>
    /\ calls = <<>>
    /\ result = NULL
    /\ pc = "call"

\* lines 151-161
ApplyIsSubsequence ==
    /\ pc = "call"
    /\ fnArgs.fn = "isSubsequence"
    /\ fnOut' = isSubsequence(fnArgs.array, fnArgs.subsequence)
    /\ pc' = "returned"
    /\ UNCHANGED <<codeMatrix, requiredSequences, bufferSize, size,
                   col, solutions, calls, result, fnArgs, appVars>>

\* lines 170-200
ApplyEvaluateMove ==
    /\ pc = "call"
    /\ fnArgs.fn = "evaluateMove"
    /\ fnOut' = evaluateMove(fnArgs.currentPath, fnArgs.nextValue,
                             fnArgs.completedSequences)
    /\ pc' = "returned"
    /\ UNCHANGED <<codeMatrix, requiredSequences, bufferSize, size,
                   col, solutions, calls, result, fnArgs, appVars>>

FnNext == ApplyIsSubsequence \/ ApplyEvaluateMove

FnSpec == FnInit /\ [][FnNext]_vars

(***************************************************************************)
(* Vocabulary of the properties                                            *)
(***************************************************************************)
Done == pc = "done"

Coords(path) == [k \in 1..Len(path) |-> <<path[k].row, path[k].col>>]

NoRevisit(path) ==
    \A i, j \in 1..Len(path) : i # j => Coords(path)[i] # Coords(path)[j]

\* seq is a (not necessarily contiguous) subsequence of values: there are
\* strictly increasing indices into values that spell seq
ContainsSubsequence(values, seq) ==
    \E f \in [1..Len(seq) -> 1..Len(values)] :
        /\ \A j \in 1..(Len(seq) - 1) : f[j] < f[j + 1]
        /\ \A j \in 1..Len(seq) : values[f[j]] = seq[j]

\* the required sequences (0-based indices) that values contains
SatisfiedBy(values) ==
    {i \in 0..(Len(requiredSequences) - 1) :
        ContainsSubsequence(values, requiredSequences[i + 1])}

\* path[0] in row 0; odd steps keep the column, even steps keep the row
\* (0-based step i is element i + 1)
LegalMovement(path) ==
    /\ Len(path) >= 1 => path[1].row = 0
    /\ \A k \in 2..Len(path) :
          IF k % 2 = 0 THEN path[k].col = path[k - 1].col
                       ELSE path[k].row = path[k - 1].row

\* every path of cells of the grid of exactly n cells that starts in row 0,
\* alternates column and row steps and never revisits a cell
RECURSIVE LegalCellPaths(_)
LegalCellPaths(n) ==
    IF n = 1 THEN {<<<<0, c>>>> : c \in 0..(size - 1)}
    ELSE UNION {
           {Append(p, cell) :
              cell \in {x \in (0..(size - 1)) \X (0..(size - 1)) :
                          /\ \A k \in 1..Len(p) : p[k] # x
                          /\ IF n % 2 = 0 THEN x[2] = p[n - 1][2]
                                          ELSE x[1] = p[n - 1][1]}} :
           p \in LegalCellPaths(n - 1)}

CellValues(p) == [k \in 1..Len(p) |-> codeMatrix[p[k][1] + 1][p[k][2] + 1]]

InputIs(g, s, b) ==
    codeMatrix = g /\ requiredSequences = s /\ bufferSize = b

(***************************************************************************)
(* C1: no legal path of length <= bufferSize (start in row 0, alternating   *)
(* column/row steps, no revisit) contains strictly more required sequences *)
(* as subsequences than solve reports completed, for grids with N >= 2.    *)
(***************************************************************************)
C1_Optimality ==
    (Done /\ size >= 2) =>
        \A n \in 1..bufferSize : \A p \in LegalCellPaths(n) :
            Cardinality(SatisfiedBy(CellValues(p)))
                <= Len(result.completedSequences)

(***************************************************************************)
(* C2: completion soundness: every index solve reports is a valid index    *)
(* into requiredSequences and that sequence is a subsequence of the token  *)
(* values of the returned path.                                            *)
(***************************************************************************)
C2_CompletionSound ==
    Done =>
        \A k \in 1..Len(result.completedSequences) :
            LET i == result.completedSequences[k]
            IN /\ i \in 0..(Len(requiredSequences) - 1)
               /\ ContainsSubsequence(Values(result.path), requiredSequences[i + 1])

C2_Witness ==
    /\ Done
    /\ Len(result.completedSequences) = 2
    /\ Len(result.path) >= 3

(***************************************************************************)
(* C3: movement legality: a returned non-empty path starts in row 0, its   *)
(* odd steps share the column of the previous position and its even steps  *)
(* (from 2 on) share the row of the previous position.                     *)
(***************************************************************************)
C3_MovementLegal == Done => LegalMovement(result.path)

C3_Witness == Done /\ Len(result.path) >= 4 /\ size >= 2

(***************************************************************************)
(* C4: no revisit: no path held at a node of the search, and no returned   *)
(* path, contains a (row, col) pair twice.                                 *)
(***************************************************************************)
C4_NoRevisit ==
    /\ \A k \in 1..Len(calls) : NoRevisit(calls[k].path)
    /\ \A k \in 1..Len(solutions) : NoRevisit(solutions[k].path)
    /\ Done => NoRevisit(result.path)

C4_Witness ==
    /\ Done
    /\ Len(result.path) >= 3
    /\ \E k \in 1..Len(calls) : Len(calls[k].path) >= 3

(***************************************************************************)
(* C5: buffer bound: the path of every node the search creates and of the  *)
(* returned Solution has length <= bufferSize.                             *)
(***************************************************************************)
C5_BufferBound ==
    /\ \A k \in 1..Len(calls) : Len(calls[k].path) <= bufferSize
    /\ \A k \in 1..Len(solutions) : Len(solutions[k].path) <= bufferSize
    /\ Done => Len(result.path) <= bufferSize

C5_Witness ==
    /\ Done
    /\ bufferSize >= 2
    /\ Len(result.path) = bufferSize
    /\ bufferSize < size * size

(***************************************************************************)
(* C6: tie-break by shortest path: no candidate Solution found with the    *)
(* same number of completed sequences as the returned one has a strictly   *)
(* shorter path.                                                           *)
(***************************************************************************)
C6_ShortestAmongBest ==
    Done =>
        \A k \in 1..Len(solutions) :
            Len(solutions[k].completedSequences) = Len(result.completedSequences)
                => Len(solutions[k].path) >= Len(result.path)

(***************************************************************************)
(* C7: a Solution whose path has reached bufferSize reports every required *)
(* sequence that is a subsequence of the token values of the full path,    *)
(* the final position included.                                            *)
(***************************************************************************)
C7_LeafCompletionFull ==
    \A k \in 1..Len(solutions) :
        Len(solutions[k].path) = bufferSize =>
            \A i \in SatisfiedBy(Values(solutions[k].path)) :
                Has(solutions[k].completedSequences, i)

(***************************************************************************)
(* C8: solve never returns the empty Solution: the returned path is        *)
(* non-empty for every grid with N >= 1 and every bufferSize >= 1.         *)
(***************************************************************************)
C8_NeverEmpty == (Done /\ size >= 1 /\ bufferSize >= 1) => Len(result.path) >= 1

(***************************************************************************)
(* C9: Scenario A: grid [[AA,BB],[BB,AA]], sequences [[AA,AA]], buffer 2.  *)
(* Original statement: solve returns a 2-step path that visits both AA    *)
(* cells with completedSequences = [0].                                    *)
(* Amended statement: solve returns the 2-step path (0,0)=AA, (1,0)=BB     *)
(* with completedSequences = [].                                           *)
(***************************************************************************)
ScenarioA ==
    InputIs(scenarioAInput[1], scenarioAInput[2], scenarioAInput[3])

C9_ScenarioA_Original ==
    (ScenarioA /\ Done) =>
        /\ Len(result.path) = 2
        /\ {Coords(result.path)[k] : k \in 1..Len(result.path)} = {<<0, 0>>, <<1, 1>>}
        /\ result.completedSequences = <<0>>

C9_ScenarioA ==
    (ScenarioA /\ Done) =>
        result = Solution(<<[row |-> 0, col |-> 0, value |-> "AA"],
                            [row |-> 1, col |-> 0, value |-> "BB"]>>, <<>>)

C9_Witness == ScenarioA /\ Done /\ Len(solutions) = 2

(***************************************************************************)
(* C10: Scenario B: for the grid, sequences and buffer size of main, solve *)
(* returns the documented 4-step path (0,0)=7A, (3,0)=E9, (3,2)=55,        *)
(* (6,2)=1C with completedSequences [1, 0], so both indices are reported.  *)
(***************************************************************************)
ScenarioB == InputIs(mainCodeMatrix, mainRequiredSequences, mainBufferSize)

C10_ScenarioB ==
    (ScenarioB /\ Done) =>
        /\ Has(result.completedSequences, 0)
        /\ Has(result.completedSequences, 1)
        /\ result = Solution(<<[row |-> 0, col |-> 0, value |-> "7A"],
                               [row |-> 3, col |-> 0, value |-> "E9"],
                               [row |-> 3, col |-> 2, value |-> "55"],
                               [row |-> 6, col |-> 2, value |-> "1C"]>>,
                             <<1, 0>>)

C10_Witness == ScenarioB /\ Done /\ Len(solutions) = 7

(***************************************************************************)
(* C11 .. C20                                                              *)
(***************************************************************************)
\* C11 (Scenario C): with no required sequences solve returns a path of
\* exactly one position, in row 0, and an empty completedSequences
C11_ScenarioC ==
    (Done /\ Len(requiredSequences) = 0) =>
        /\ Len(result.path) = 1
        /\ result.path[1].row = 0
        /\ result.completedSequences = <<>>

C11_Witness ==
    /\ Done
    /\ Len(requiredSequences) = 0
    /\ size >= 2
    /\ bufferSize >= 2
    /\ Len(result.path) = 1

\* the indices of the required sequences longer than bufferSize
TooLong == {i \in 0..(Len(requiredSequences) - 1) : Len(requiredSequences[i + 1]) > bufferSize}

Min(a, b) == IF a <= b THEN a ELSE b

\* s is a Solution: a path of positions of the grid plus a list of indices
\* of required sequences
IsSolutionValue(s) ==
    /\ DOMAIN s = {"path", "completedSequences"}
    /\ \A k \in 1..Len(s.path) :
          /\ s.path[k].row \in 0..(size - 1)
          /\ s.path[k].col \in 0..(size - 1)
    /\ \A k \in 1..Len(s.completedSequences) :
          s.completedSequences[k] \in 0..(Len(requiredSequences) - 1)

\* the depth of an invocation of explorePath is the length of its path
DepthBounded ==
    \A k \in 1..Len(calls) : Len(calls[k].path) <= Min(bufferSize, size * size)

\* C14 (totality): solve terminates and returns a Solution value, and the
\* recursion of explorePath is never deeper than min(bufferSize, N*N)
C14_Totality == [](DepthBounded) /\ <>(Done /\ IsSolutionValue(result))

\* solve has returned from a search that went as deep as the grid allows
C14_Witness ==
    /\ Done
    /\ IsSolutionValue(result)
    /\ size >= 2
    /\ bufferSize > size * size
    /\ \E k \in 1..Len(calls) : Len(calls[k].path) = size * size

AsSet(seq) == {seq[k] : k \in 1..Len(seq)}

\* invocation d of calls is in the subtree of invocation n (n itself
\* included): the path of n is a prefix of the path of d
InSubtree(n, d) ==
    /\ n <= d
    /\ Len(calls[n].path) <= Len(calls[d].path)
    /\ SubSeq(calls[d].path, 1, Len(calls[n].path)) = calls[n].path

\* C15 (completion is monotonic along a branch): what a node hands down to
\* its subtree contains what it received from its parent, and so does
\* every Solution returned from its subtree
C15_Monotonic ==
    \A n \in 1..Len(calls) :
        calls[n].completedSequences # <<>> =>
            \A d \in n..Len(calls) :
                InSubtree(n, d) =>
                    /\ AsSet(calls[n].completedSequences)
                           \subseteq AsSet(calls[d].completedSequences)
                    /\ calls[d].returned # NULL =>
                           AsSet(calls[n].completedSequences)
                               \subseteq AsSet(calls[d].returned.completedSequences)

\* a node that received a completed sequence has a descendant, and the
\* descendant returned a Solution
C15_Witness ==
    \E n \in 1..Len(calls) : \E d \in 1..Len(calls) :
        /\ n # d
        /\ InSubtree(n, d)
        /\ calls[n].completedSequences # <<>>
        /\ Len(calls[n].path) < bufferSize
        /\ calls[d].returned # NULL

\* values contains every required sequence
CompletesAll(values) ==
    \A i \in 0..(Len(requiredSequences) - 1) :
        ContainsSubsequence(values, requiredSequences[i + 1])

\* the path of the node that made invocation d (d is not a top-row start)
ParentPath(d) == SubSeq(calls[d].path, 1, Len(calls[d].path) - 1)

\* invocation d returned a Solution that completes every required sequence
ReturnedComplete(d) ==
    /\ calls[d].returned # NULL
    /\ Len(calls[d].returned.completedSequences) = Len(requiredSequences)

\* C16 (short-circuit on full completion): a node whose path completes all
\* required sequences makes no recursive call, and once a child has
\* returned a Solution that completes them all the node returns that
\* Solution and calls no further child
C16_ShortCircuit ==
    \A d \in 1..Len(calls) :
        Len(calls[d].path) >= 2 =>
            /\ ~CompletesAll(Values(ParentPath(d)))
            /\ ReturnedComplete(d) =>
                  /\ \A p \in 1..(d - 1) :
                        calls[p].path = ParentPath(d) =>
                            calls[p].returned = calls[d].returned
                  /\ \A e \in (d + 1)..Len(calls) :
                        ~(/\ Len(calls[e].path) = Len(calls[d].path)
                          /\ ParentPath(e) = ParentPath(d))

\* in a grid where the top-row start has at least two moves, its first
\* child returned a complete Solution and no second child was called
C16_Witness ==
    /\ Done
    /\ size >= 3
    /\ Len(requiredSequences) >= 1
    /\ Len(calls) >= 2
    /\ ReturnedComplete(2)
    /\ calls[1].returned = calls[2].returned
    /\ \A e \in 3..Len(calls) : Len(calls[e].path) > 2

\* the orders other than the heuristic sort that the search is rerun with
OtherOrders == {"grid", "reverse"}

Returned(fn) == pc = "returned" /\ fnArgs.fn = fn

\* the longest prefix of seq that values contains as a subsequence: what a
\* greedy left-to-right scan of values matches of seq
LeadingMatched(values, seq) ==
    CHOOSE k \in 0..Len(seq) :
        /\ ContainsSubsequence(values, SubSeq(seq, 1, k))
        /\ \A j \in (k + 1)..Len(seq) : ~ContainsSubsequence(values, SubSeq(seq, 1, j))

\* what required sequence i adds to the score of testPath
Contribution(testPath, completed, i) ==
    IF Has(completed, i) THEN 0
    ELSE IF ContainsSubsequence(testPath, requiredSequences[i + 1]) THEN 0 - 1000
    ELSE 0 - 10 * LeadingMatched(testPath, requiredSequences[i + 1])

RECURSIVE SumOfContributions(_, _, _)
SumOfContributions(testPath, completed, n) ==
    IF n = 0 THEN 0
    ELSE Contribution(testPath, completed, n - 1) + SumOfContributions(testPath, completed, n - 1)

\* C18: evaluateMove(pathValues, token, completed) is the sum over the
\* required sequences not in completed of -1000 if the sequence is a
\* subsequence of pathValues followed by token and of -10 times its matched
\* leading tokens otherwise; completed sequences add 0
C18_EvaluateMove ==
    Returned("evaluateMove") =>
        fnOut = SumOfContributions(Append(fnArgs.currentPath, fnArgs.nextValue),
                                   fnArgs.completedSequences, Len(requiredSequences))

\* one call where a sequence that the path contains is in completed and
\* adds nothing, and the other sequence is matched in part: the score is -10
C18_Witness ==
    /\ Returned("evaluateMove")
    /\ Len(requiredSequences) = 2
    /\ fnArgs.completedSequences = <<0>>
    /\ ContainsSubsequence(Append(fnArgs.currentPath, fnArgs.nextValue), requiredSequences[1])
    /\ fnOut = 0 - 10

\* C19: isSubsequence(array, subsequence) is true exactly when strictly
\* increasing indices into array spell subsequence
C19_IsSubsequence ==
    Returned("isSubsequence") =>
        (fnOut <=> ContainsSubsequence(fnArgs.array, fnArgs.subsequence))

\* a subsequence that is contained but not contiguously
C19_Witness ==
    /\ Returned("isSubsequence")
    /\ fnOut = TRUE
    /\ fnArgs.array = <<"AA", "BB", "AA">>
    /\ fnArgs.subsequence = <<"AA", "AA">>

\* every position of path carries the grid's value at its row and column
CarriesGridValues(path) ==
    \A k \in 1..Len(path) : path[k].value = codeMatrix[path[k].row + 1][path[k].col + 1]

\* every path the solver has built or returned
PathsCarryGridValues ==
    /\ \A k \in 1..Len(calls) :
          /\ CarriesGridValues(calls[k].path)
          /\ calls[k].returned # NULL => CarriesGridValues(calls[k].returned.path)
    /\ \A k \in 1..Len(solutions) : CarriesGridValues(solutions[k].path)
    /\ result # NULL => CarriesGridValues(result.path)

\* C20 (frame): the solver never writes to the grid, and every position of
\* every path it builds or returns has value = grid[row][col]
C20_Frame == [](PathsCarryGridValues) /\ [][codeMatrix' = codeMatrix]_vars

\* a returned path that leaves the diagonal of a grid that is not symmetric
C20_Witness ==
    /\ Done
    /\ size >= 2
    /\ codeMatrix[1][2] # codeMatrix[2][1]
    /\ Len(result.path) >= 2
    /\ \E k \in 1..Len(result.path) : result.path[k].row # result.path[k].col

(***************************************************************************)
(* The interactive command line, src/unnamed/part_000                      *)
(***************************************************************************)
\* longest answer typed at the buffer-size prompt
MaxAnswerLen == 3

\* the characters an answer is made of: digits, a sign, a blank, a letter
Chars == {"0", "3", "7", "-", " ", "a"}

Answers == UNION {[1..n -> Chars] : n \in 0..MaxAnswerLen}

\* a JavaScript number: NaN, or the integer v
Num(v) == [nan |-> FALSE, v |-> v]

NaN == [nan |-> TRUE, v |-> 0]

DigitValue(c) == CASE c = "0" -> 0 [] c = "3" -> 3 [] c = "7" -> 7

IsDigit(c) == c \in {"0", "3", "7"}

\* the value of the digits of str from position i on, up to the first
\* character that is not a digit; acc is the value read so far
RECURSIVE ReadDigits(_, _, _)
ReadDigits(str, i, acc) ==
    IF i <= Len(str) /\ IsDigit(str[i])
    THEN ReadDigits(str, i + 1, acc * 10 + DigitValue(str[i]))
    ELSE acc

\* the first position of str from i on that holds no blank
RECURSIVE SkipBlanks(_, _)
SkipBlanks(str, i) ==
    IF i <= Len(str) /\ str[i] = " " THEN SkipBlanks(str, i + 1) ELSE i

\* parseInt(str): leading blanks are skipped, a sign is read, then the
\* longest run of decimal digits; NaN when there is no digit
parseInt(str) ==
    LET start == SkipBlanks(str, 1)
        negative == start <= Len(str) /\ str[start] = "-"
        first == IF negative THEN start + 1 ELSE start
    IN IF first <= Len(str) /\ IsDigit(str[first])
       THEN Num((IF negative THEN 0 - 1 ELSE 1) * ReadDigits(str, first, 0))
       ELSE NaN

\* line 87: a non-empty string is truthy
bufferSizeOf(bufferSizeStr) ==
    IF bufferSizeStr # <<>> THEN parseInt(bufferSizeStr) ELSE Num(7)

\* line 89
invalidBufferSize(value) == value.nan \/ value.v < 1

\* main has read the matrix and the sequences (lines 30-83) and is about to
\* ask for the buffer size
CliInit ==
    /\ \E inp \in {scenarioAInput, scenarioDInput} :
          cli = [codeMatrix |-> inp[1], requiredSequences |-> inp[2],
                 bufferSizeStr |-> NULL, bufferSize |-> NULL,
                 announced |-> FALSE, invoked |-> NULL]
    /\ pc = "prompt"
    /\ codeMatrix = <<>>
    /\ requiredSequences = <<>>
    /\ bufferSize = MaxBuf
    /\ size = 0
    /\ col = 0
    /\ solutions = <<>>
    /\ calls = <<>>
    /\ result = NULL
    /\ fnArgs = NULL /\ fnOut = NULL
    /\ http = NULL /\ ocr = NULL /\ ocrCli = NULL

\* lines 86-91: the answer is read and parsed; the message of line 90 is
\* printed and nothing else is done about an invalid value
CliReadBufferSize ==
    /\ pc = "prompt"
    /\ \E answer \in Answers :
          cli' = [cli EXCEPT !.bufferSizeStr = answer,
                             !.bufferSize = bufferSizeOf(answer),
                             !.announced = invalidBufferSize(bufferSizeOf(answer))]
    /\ pc' = "solve"
    /\ UNCHANGED <<codeMatrix, requiredSequences, bufferSize, size, col,
                   solutions, calls, result, fnArgs, fnOut, http, ocr, ocrCli>>

\* line 97: solveBreachProtocol is called with the three values
CliSolve ==
    /\ pc = "solve"
    /\ cli' = [cli EXCEPT !.invoked = [codeMatrix |-> cli.codeMatrix,
                                       requiredSequences |-> cli.requiredSequences,
                                       bufferSize |-> cli.bufferSize]]
    /\ pc' = "closed"
    /\ UNCHANGED <<codeMatrix, requiredSequences, bufferSize, size, col,
                   solutions, calls, result, fnArgs, fnOut, http, ocr, ocrCli>>

CliNext == CliReadBufferSize \/ CliSolve

CliSpec == CliInit /\ [][CliNext]_vars

\* the answer is a number of at least 1: an optional sign and digits after
\* any leading blanks
ParsesToAtLeastOne(answer) ==
    \E n \in 1..Len(answer) :
        /\ IsDigit(answer[n])
        /\ \A k \in 1..(n - 1) : answer[k] = " "
        /\ ReadDigits(answer, n, 0) >= 1

\* C21: when the buffer-size answer is empty, does not parse to a number or
\* is less than 1, the solver is invoked with bufferSize 7
C21_DefaultBufferSize ==
    (pc = "closed" /\ ~ParsesToAtLeastOne(cli.bufferSizeStr)) =>
        cli.invoked.bufferSize = Num(7)

(***************************************************************************)
(* The POST /solve route, src/unnamed/part_001                             *)
(***************************************************************************)
\* JavaScript values of a parsed request body
Undefined == [js |-> "undefined"]

JsNull == [js |-> "null"]

Str(s) == [js |-> "string", s |-> s]

JsNumber(n) == [js |-> "number", n |-> n]

Arr(a) == [js |-> "array", v |-> a]

\* an array of n nulls, as the JSON text [null] gives
NullRows(n) == [js |-> "array", length |-> n, rows |-> "null"]

Falsy(x) ==
    \/ x.js \in {"undefined", "null"}
    \/ x.js = "string" /\ x.s = ""
    \/ x.js = "number" /\ x.n = 0

isArray(x) == x.js = "array"

Length(x) == IF "v" \in DOMAIN x THEN Len(x.v) ELSE x.length

\* variant: the test for an empty array is left out
invalidList_NoLength(x) == Falsy(x) \/ ~isArray(x)

\* lines 23 and 27; || stops at the first operand that is true
invalidList(x) == IF Falsy(x) \/ ~isArray(x) THEN TRUE ELSE Length(x) = 0

BodyCodeMatrices ==
    {Undefined, JsNull, Str(""), Str("AA"), JsNumber(0), Arr(<<>>), NullRows(1)}
    \cup {Arr(inp[1]) : inp \in {scenarioAInput, scenarioDInput}}

BodyRequiredSequences ==
    {Undefined, Str("AA"), Arr(<<>>)}
    \cup {Arr(s) : s \in {scenarioAInput[2], scenarioDInput[2], mainRequiredSequences}}

BodyBufferSizes == {Undefined, JsNumber(0)} \cup {JsNumber(b) : b \in 1..MaxBuf}

\* the request has been parsed by the middleware of lines 10-11
HttpInit ==
    /\ \E cm \in BodyCodeMatrices, rs \in BodyRequiredSequences, bs \in BodyBufferSizes :
          http = [body |-> [codeMatrix |-> cm, requiredSequences |-> rs, bufferSize |-> bs],
                  solverCalls |-> 0, response |-> NULL]
    /\ pc = "request"
    /\ codeMatrix = <<>>
    /\ requiredSequences = <<>>
    /\ bufferSize = MaxBuf
    /\ size = 0
    /\ col = 0
    /\ solutions = <<>>
    /\ calls = <<>>
    /\ result = NULL
    /\ fnArgs = NULL /\ fnOut = NULL
    /\ cli = NULL /\ ocr = NULL /\ ocrCli = NULL

\* lines 20-29: an invalid body is answered with 400
HttpReject ==
    /\ pc = "request"
    /\ invalidList(http.body.codeMatrix) \/ invalidList(http.body.requiredSequences)
    /\ http' = [http EXCEPT !.response =
                  [status |-> 400,
                   body |-> IF invalidList(http.body.codeMatrix)
                            THEN [error |-> "Invalid code matrix"]
                            ELSE [error |-> "Invalid required sequences"]]]
    /\ pc' = "responded"
    /\ UNCHANGED <<codeMatrix, requiredSequences, bufferSize, size, col,
                   solutions, calls, result, fnArgs, fnOut, cli, ocr, ocrCli>>

\* lines 20-31: a valid body; solveBreachProtocol is called and builds the
\* solver (constructor, lines 4-9 of the solver) with bufferSize || 7
HttpCallSolver ==
    /\ pc = "request"
    /\ ~invalidList(http.body.codeMatrix)
    /\ ~invalidList(http.body.requiredSequences)
    /\ codeMatrix' = IF "v" \in DOMAIN http.body.codeMatrix
                     THEN http.body.codeMatrix.v
                     ELSE [k \in 1..http.body.codeMatrix.length |-> JsNull]
    /\ requiredSequences' = http.body.requiredSequences.v
    /\ bufferSize' = IF Falsy(http.body.bufferSize) THEN 7 ELSE http.body.bufferSize.n
    /\ size' = Length(http.body.codeMatrix)
    /\ http' = [http EXCEPT !.solverCalls = @ + 1]
    /\ pc' = "solving"
    /\ UNCHANGED <<col, solutions, calls, result, fnArgs, fnOut, cli, ocr, ocrCli>>

\* solve reads codeMatrix[0][col] (line 20 of the solver): a TypeError when
\* the rows are null
solverThrows == "rows" \in DOMAIN http.body.codeMatrix

\* lines 31-35: the Solution is the response, an exception gives 500
HttpRespond ==
    /\ pc = "solving"
    /\ IF solverThrows
       THEN /\ http' = [http EXCEPT !.response =
                          [status |-> 500, body |-> [error |-> "TypeError"]]]
            /\ result' = result
       ELSE /\ result' = solveIn("heuristic")
            /\ http' = [http EXCEPT !.response = [status |-> 200, body |-> result']]
    /\ pc' = "responded"
    /\ UNCHANGED <<codeMatrix, requiredSequences, bufferSize, size, col,
                   solutions, calls, fnArgs, fnOut, cli, ocr, ocrCli>>

HttpNext == HttpReject \/ HttpCallSolver \/ HttpRespond

HttpSpec == HttpInit /\ [][HttpNext]_vars

\* x is missing, not an array or an empty array
MissingOrNotNonEmptyArray(x) ==
    IF x = Undefined \/ x.js # "array" THEN TRUE ELSE Length(x) = 0

\* C22: POST /solve answers 400 without invoking the solver when codeMatrix
\* or requiredSequences is missing, not an array or empty; otherwise it
\* invokes the solver once, with bufferSize 7 when the body gives none, and
\* answers with the Solution, or with 500 when the solver throws
C22_PostSolve ==
    pc = "responded" =>
        IF \/ MissingOrNotNonEmptyArray(http.body.codeMatrix)
           \/ MissingOrNotNonEmptyArray(http.body.requiredSequences)
        THEN http.response.status = 400 /\ http.solverCalls = 0
        ELSE /\ http.solverCalls = 1
             /\ http.body.bufferSize = Undefined => bufferSize = 7
             /\ http.body.bufferSize.js = "number" /\ http.body.bufferSize.n >= 1
                   => bufferSize = http.body.bufferSize.n
             /\ \/ /\ http.response.status = 200
                   /\ IsSolutionValue(http.response.body)
                   /\ http.response.body = result
                \/ /\ http.response.status = 500
                   /\ http.body.codeMatrix = NullRows(1)

\* a valid body without bufferSize was answered with a Solution of 2 steps
C22_Witness ==
    /\ pc = "responded"
    /\ http.body.bufferSize = Undefined
    /\ http.solverCalls = 1
    /\ http.response.status = 200
    /\ Len(http.response.body.path) >= 2

\* ---------------------------------------------------------------------
\* The OCR worker of fromClaudeWithTesseractOcr/BreachProtocolOCRupdatedAgain.js:
\* the class BreachProtocolOCR (initialize, processImage, terminate) and the
\* helper processBreachProtocolImage.  The tesseract worker, the file system
\* and Jimp are the environment: each of their promises resolves or rejects.
\* ---------------------------------------------------------------------

MaxOcrCalls == 3

\* line 13: the worker field of a fresh object
NoWorker == "null"

\* line 22: the object createWorker() resolves to
TesseractWorker == "worker"

\* no error: the promise resolved
NoError == "none"

NotInitialized == "OCR worker not initialized. Call initialize() first."

\* lines 19-39: createWorker, then loadLanguage, initialize, setParameters;
\* the catch logs and rethrows
initializeOutcomes == {"ok", "createWorker rejects", "setup rejects"}

initialize(worker, outcome) ==
    [worker |-> IF outcome = "createWorker rejects" THEN worker ELSE TesseractWorker,
     created |-> outcome # "createWorker rejects",
     error |-> IF outcome = "ok" THEN NoError ELSE outcome,
     recognitions |-> 0]

\* lines 46-86: the guard on the worker, then loading and recognition
\* (extractCodeMatrix, extractRequiredSequences, extractBufferSize)
processImageOutcomes == {"ok", "Image file does not exist", "recognize rejects"}

processImage(worker, outcome) ==
    IF worker = NoWorker
    THEN [worker |-> worker, created |-> FALSE, error |-> NotInitialized,
          recognitions |-> 0]
    ELSE [worker |-> worker, created |-> FALSE,
          error |-> IF outcome = "ok" THEN NoError ELSE outcome,
          recognitions |-> CASE outcome = "ok" -> 3
                             [] outcome = "recognize rejects" -> 1
                             [] OTHER -> 0]

\* lines 401-407: the field is cleared after worker.terminate() resolved
terminateOutcomes == {"ok", "worker.terminate rejects"}

terminate(worker, outcome) ==
    IF worker = NoWorker
    THEN [worker |-> worker, created |-> FALSE, error |-> NoError, recognitions |-> 0]
    ELSE IF outcome = "ok"
    THEN [worker |-> NoWorker, created |-> FALSE, error |-> NoError, recognitions |-> 0]
    ELSE [worker |-> worker, created |-> FALSE, error |-> outcome, recognitions |-> 0]

\* the effect of one method call on the object and on the call log
AfterCall(method, r) ==
    [ocr EXCEPT !.worker = r.worker,
                !.created = ocr.created \/ r.created,
                !.recognitions = ocr.recognitions + r.recognitions,
                !.log = Append(ocr.log, [method |-> method, error |-> r.error,
                                         recognitions |-> r.recognitions])]

\* line 416 (new BreachProtocolOCR() in the helper) or a client of the class
OcrInit ==
    /\ \E mode \in {"helper", "client"} :
          ocr = [mode |-> mode, worker |-> NoWorker, created |-> FALSE,
                 recognitions |-> 0, log |-> <<>>, caught |-> NoError, thrown |-> NoError]
    /\ pc = "new"
    /\ codeMatrix = <<>>
    /\ requiredSequences = <<>>
    /\ bufferSize = MaxBuf
    /\ size = 0
    /\ col = 0
    /\ solutions = <<>>
    /\ calls = <<>>
    /\ result = NULL
    /\ fnArgs = NULL /\ fnOut = NULL
    /\ cli = NULL /\ http = NULL /\ ocrCli = NULL

OcrFrame ==
    UNCHANGED <<codeMatrix, requiredSequences, bufferSize, size, col,
                solutions, calls, result, fnArgs, fnOut, cli, http, ocrCli>>

\* line 419: await ocr.initialize()
HelperInitialize ==
    /\ ocr.mode = "helper" /\ pc = "new"
    /\ \E outcome \in initializeOutcomes :
          LET r == initialize(ocr.worker, outcome)
          IN  /\ ocr' = [AfterCall("initialize", r) EXCEPT !.caught = r.error]
              /\ pc' = IF r.error = NoError THEN "initialized" ELSE "catch"
    /\ OcrFrame

\* line 420: await ocr.processImage(imagePath)
HelperProcessImage ==
    /\ ocr.mode = "helper" /\ pc = "initialized"
    /\ \E outcome \in processImageOutcomes :
          LET r == processImage(ocr.worker, outcome)
          IN  /\ ocr' = [AfterCall("processImage", r) EXCEPT !.caught = r.error]
              /\ pc' = IF r.error = NoError THEN "processed" ELSE "catch"
    /\ OcrFrame

\* lines 421-422: await ocr.terminate(); return result
HelperTerminate ==
    /\ ocr.mode = "helper" /\ pc = "processed"
    /\ \E outcome \in terminateOutcomes :
          LET r == terminate(ocr.worker, outcome)
          IN  /\ ocr' = [AfterCall("terminate", r) EXCEPT !.caught = r.error]
              /\ pc' = IF r.error = NoError THEN "resolved" ELSE "catch"
    /\ OcrFrame

\* lines 423-429: the catch terminates, swallowing a rejection, and rethrows
HelperCatch ==
    /\ ocr.mode = "helper" /\ pc = "catch"
    /\ \E outcome \in terminateOutcomes :
          LET r == terminate(ocr.worker, outcome)
          IN  ocr' = [AfterCall("terminate", r) EXCEPT !.thrown = ocr.caught]
    /\ pc' = "rejected"
    /\ OcrFrame

\* a client calls the three methods of the class in any order
ClientInitialize ==
    /\ ocr.mode = "client" /\ Len(ocr.log) < MaxOcrCalls
    /\ \E outcome \in initializeOutcomes :
          ocr' = AfterCall("initialize", initialize(ocr.worker, outcome))
    /\ pc' = "called"
    /\ OcrFrame

ClientProcessImage ==
    /\ ocr.mode = "client" /\ Len(ocr.log) < MaxOcrCalls
    /\ \E outcome \in processImageOutcomes :
          ocr' = AfterCall("processImage", processImage(ocr.worker, outcome))
    /\ pc' = "called"
    /\ OcrFrame

ClientTerminate ==
    /\ ocr.mode = "client" /\ Len(ocr.log) < MaxOcrCalls
    /\ \E outcome \in terminateOutcomes :
          ocr' = AfterCall("terminate", terminate(ocr.worker, outcome))
    /\ pc' = "called"
    /\ OcrFrame

OcrNext ==
    \/ HelperInitialize
    \/ HelperProcessImage
    \/ HelperTerminate
    \/ HelperCatch
    \/ ClientInitialize
    \/ ClientProcessImage
    \/ ClientTerminate

OcrSpec == OcrInit /\ [][OcrNext]_vars

\* the helper has settled: its promise resolved or rejected
HelperSettled == ocr.mode = "helper" /\ pc \in {"resolved", "rejected"}

\* the first error raised inside the helper's try block
OriginalError ==
    LET failed == {i \in 1..Len(ocr.log) : ocr.log[i].error # NoError}
    IN  IF failed = {} THEN NoError
        ELSE ocr.log[CHOOSE i \in failed : \A j \in failed : i <= j].error

\* call i of the log was made before any initialize, or right after a
\* terminate that resolved
BeforeInitializeOrAfterTerminate(i) ==
    \/ \A j \in 1..(i - 1) : ocr.log[j].method # "initialize"
    \/ i > 1 /\ ocr.log[i - 1].method = "terminate" /\ ocr.log[i - 1].error = NoError

\* C23: processBreachProtocolImage releases the worker on every exit path:
\* once it has resolved or rejected, the worker field is null whenever a
\* worker had been created, and a rejection carries the original error;
\* processImage called before initialize or after terminate fails with
\* 'OCR worker not initialized' without performing any recognition
C23_WorkerReleased ==
    /\ HelperSettled /\ ocr.created => ocr.worker = NoWorker
    /\ HelperSettled /\ pc = "rejected" => ocr.thrown = OriginalError
    /\ \A i \in 1..Len(ocr.log) :
          ocr.log[i].method = "processImage" /\ BeforeInitializeOrAfterTerminate(i)
             => ocr.log[i].error = NotInitialized /\ ocr.log[i].recognitions = 0

\* the parts of C23 that the code keeps
C23_Rethrown == HelperSettled /\ pc = "rejected" => ocr.thrown = OriginalError

C23_Guarded ==
    \A i \in 1..Len(ocr.log) :
       ocr.log[i].method = "processImage" /\ BeforeInitializeOrAfterTerminate(i)
          => ocr.log[i].error = NotInitialized /\ ocr.log[i].recognitions = 0

\* ---------------------------------------------------------------------
\* The OCR command line of fromClaudeWithTesseractOcr/cyberpunk-ocr-cli.js:
\* processAndSolve cleans the recognised matrix and, with --solve, hands it
\* to the solver.  The recognised data is the input.
\* ---------------------------------------------------------------------

MaxRows == 3

MaxRowLen == 2

\* the token the OCR puts where it could not read a code
Unknown == "??"

OcrTokens == {"AA", Unknown}

OcrRows == UNION {[1..n -> OcrTokens] : n \in 0..MaxRowLen}

OcrMatrices == UNION {[1..n -> OcrRows] : n \in 0..MaxRows}

OcrSequenceLists ==
    { << <<"AA">> >>, << <<"AA", "AA">>, <<Unknown>>, <<>>, <<"AA">> >> }

\* Array.prototype.includes
includes(array, value) == \E i \in 1..Len(array) : array[i] = value

\* ===: values of different types are never equal
StrictEquals(a, b) == IF a.js # b.js THEN FALSE ELSE a = b

\* property keys are strings: counts[value] stores under String(value)
PropertyKey(value) == Str(ToString(value))

\* lines 149-152: counts[value] = (counts[value] || 0) + 1
countOf(arr, value) == Cardinality({i \in 1..Len(arr) : arr[i] = value})

\* Object.entries(counts): integer keys in ascending order, each with its count
RECURSIVE entriesFrom(_, _, _)
entriesFrom(arr, value, last) ==
    IF value > last THEN <<>>
    ELSE (IF countOf(arr, value) > 0
          THEN << <<PropertyKey(value), countOf(arr, value)>> >>
          ELSE <<>>) \o entriesFrom(arr, value + 1, last)

entries(arr) ==
    IF Len(arr) = 0 THEN <<>>
    ELSE entriesFrom(arr, 0, CHOOSE m \in {arr[i] : i \in 1..Len(arr)} :
                                \A i \in 1..Len(arr) : arr[i] <= m)

\* lines 154-155: stable sort, descending by count
RECURSIVE sortEntries(_, _, _)
sortEntries(es, k, sorted) ==
    IF k > Len(es) THEN sorted
    ELSE LET e == es[k]
             before == Cardinality({j \in 1..Len(sorted) : sorted[j][2] >= e[2]})
         IN sortEntries(es, k + 1,
                        SubSeq(sorted, 1, before) \o <<e>>
                            \o SubSeq(sorted, before + 1, Len(sorted)))

\* reading [0] of undefined
TypeError == [js |-> "TypeError"]

\* lines 148-157: the key of the first sorted entry; [0][0] of an empty list
\* of entries throws
findMostCommon(arr) ==
    LET sorted == sortEntries(entries(arr), 1, <<>>)
    IN IF Len(sorted) = 0 THEN TypeError ELSE sorted[1][1]

\* lines 124-141; value is the returned matrix unless the call threw
cleanMatrix(matrix) ==
    LET filteredMatrix == SelectSeq(matrix, LAMBDA row : ~includes(row, Unknown))
        rowLengths == [i \in 1..Len(filteredMatrix) |-> Len(filteredMatrix[i])]
        mostCommonLength == findMostCommon(rowLengths)
    IN IF mostCommonLength = TypeError
       THEN [threw |-> TRUE, value |-> <<>>]
       ELSE [threw |-> FALSE,
             value |-> SelectSeq(filteredMatrix,
                          LAMBDA row : StrictEquals(JsNumber(Len(row)), mostCommonLength))]

\* lines 54, 34-38: the OCR result and the command line arguments
OcrCliInit ==
    /\ \E m \in OcrMatrices, rs \in OcrSequenceLists, solve \in BOOLEAN,
          manualBufferSize \in {JsNull, JsNumber(4)} :
          ocrCli = [result |-> [codeMatrix |-> m, requiredSequences |-> rs,
                                bufferSize |-> JsNumber(7)],
                    recognised |-> m,
                    solve |-> solve,
                    manualBufferSize |-> manualBufferSize,
                    solverCalls |-> 0,
                    exitCode |-> 0]
    /\ pc = "recognised"
    /\ codeMatrix = <<>>
    /\ requiredSequences = <<>>
    /\ bufferSize = MaxBuf
    /\ size = 0
    /\ col = 0
    /\ solutions = <<>>
    /\ calls = <<>>
    /\ result = NULL
    /\ fnArgs = NULL /\ fnOut = NULL
    /\ cli = NULL /\ http = NULL /\ ocr = NULL

\* lines 57-71, 113-116: buffer override, cleanMatrix, sequence filter; an
\* exception ends the process with exit code 1
OcrCliClean ==
    /\ pc = "recognised"
    /\ LET cleaned == cleanMatrix(ocrCli.result.codeMatrix)
       IN IF cleaned.threw
          THEN /\ ocrCli' = [ocrCli EXCEPT
                               !.result.bufferSize =
                                   IF ocrCli.manualBufferSize # JsNull
                                   THEN ocrCli.manualBufferSize ELSE @,
                               !.exitCode = 1]
               /\ pc' = "exited"
          ELSE /\ ocrCli' = [ocrCli EXCEPT
                               !.result.bufferSize =
                                   IF ocrCli.manualBufferSize # JsNull
                                   THEN ocrCli.manualBufferSize ELSE @,
                               !.result.codeMatrix = cleaned.value,
                               !.result.requiredSequences =
                                   SelectSeq(@, LAMBDA seq :
                                       Len(seq) > 0 /\ ~includes(seq, Unknown))]
               /\ pc' = "cleaned"
    /\ UNCHANGED <<codeMatrix, requiredSequences, bufferSize, size, col,
                   solutions, calls, result, fnArgs, fnOut, cli, http, ocr>>

\* lines 93-100: with --solve the cleaned data goes to solveBreachProtocol
OcrCliCallSolver ==
    /\ pc = "cleaned"
    /\ ocrCli.solve
    /\ codeMatrix' = ocrCli.result.codeMatrix
    /\ requiredSequences' = ocrCli.result.requiredSequences
    /\ bufferSize' = ocrCli.result.bufferSize.n
    /\ size' = Len(ocrCli.result.codeMatrix)
    /\ ocrCli' = [ocrCli EXCEPT !.solverCalls = @ + 1]
    /\ pc' = "solving"
    /\ UNCHANGED <<col, solutions, calls, result, fnArgs, fnOut, cli, http, ocr>>

\* lines 96-111: the solution is printed
OcrCliPrintSolution ==
    /\ pc = "solving"
    /\ result' = solveIn("heuristic")
    /\ pc' = "finished"
    /\ UNCHANGED <<codeMatrix, requiredSequences, bufferSize, size, col,
                   solutions, calls, fnArgs, fnOut, cli, http, ocr, ocrCli>>

\* line 93: without --solve nothing more happens
OcrCliFinish ==
    /\ pc = "cleaned"
    /\ ~ocrCli.solve
    /\ pc' = "finished"
    /\ UNCHANGED <<codeMatrix, requiredSequences, bufferSize, size, col,
                   solutions, calls, result, fnArgs, fnOut, cli, http, ocr, ocrCli>>

OcrCliNext == OcrCliClean \/ OcrCliCallSolver \/ OcrCliPrintSolution \/ OcrCliFinish

OcrCliSpec == OcrCliInit /\ [][OcrCliNext]_vars

\* the rows without an unknown token, in their order
KnownRows(matrix) == SelectSeq(matrix, LAMBDA row : ~includes(row, Unknown))

\* a row length that no other length of the rows exceeds in frequency
IsMostCommonLength(n, rows) ==
    /\ \E i \in 1..Len(rows) : Len(rows[i]) = n
    /\ \A j \in 1..Len(rows) :
          Cardinality({i \in 1..Len(rows) : Len(rows[i]) = Len(rows[j])})
              <= Cardinality({i \in 1..Len(rows) : Len(rows[i]) = n})

\* C24: cleanMatrix returns exactly the rows of its input that contain no
\* '??' and whose length is the most common row length among the '??'-free
\* rows, in their original order
C24_CleanMatrix ==
    pc # "recognised" =>
        /\ pc # "exited"
        /\ \E n \in 0..MaxRowLen :
              /\ KnownRows(ocrCli.recognised) # <<>>
                    => IsMostCommonLength(n, KnownRows(ocrCli.recognised))
              /\ ocrCli.result.codeMatrix =
                    SelectSeq(KnownRows(ocrCli.recognised), LAMBDA row : Len(row) = n)

\* the matrix is square as the solver requires it: at least one row, and
\* as many rows as each row has cells
SquareMatrix(matrix) ==
    /\ Len(matrix) >= 1
    /\ \A i \in 1..Len(matrix) : Len(matrix[i]) = Len(matrix)

Complete(s) == Len(s.completedSequences) = Len(requiredSequences)

\* C26: for bufferSize >= 1, a returned non-empty Solution that does not
\* complete all required sequences has a path of exactly bufferSize cells;
\* a shorter path is returned only when it completes them all
C26_FullBufferUnlessComplete ==
    (Done /\ bufferSize >= 1 /\ result.path # <<>>) =>
        /\ Len(result.path) <= bufferSize
        /\ ~Complete(result) => Len(result.path) = bufferSize

\* an incomplete Solution that fills a buffer of at least 3 cells
C26_Witness ==
    /\ Done
    /\ bufferSize >= 3
    /\ ~Complete(result)
    /\ Len(result.path) = bufferSize

\* the first n values of the path, or all of them when there are fewer
FirstValues(path, n) == SubSeq(Values(path), 1, Min(Len(path), n))

CompletableWithin(n) ==
    \E m \in 1..Min(n, size * size) :
        \E p \in LegalCellPaths(m) : CompletesAll(CellValues(p))

\* C28: if some legal path (start in row 0, alternating steps, no revisit)
\* of at most bufferSize - 1 cells contains every required sequence, solve
\* returns a Solution with one entry for every required sequence
C28_CompleteWhenPossible ==
    Done =>
        \/ /\ Complete(result)
           /\ AsSet(result.completedSequences) = 0..(Len(requiredSequences) - 1)
        \/ ~CompletableWithin(bufferSize - 1)

\* a grid where only a path of two or more cells completes the sequences
C28_Witness ==
    /\ Done
    /\ size <= 3
    /\ Len(requiredSequences) >= 1
    /\ Len(result.path) >= 2
    /\ Complete(result)
    /\ CompletableWithin(bufferSize - 1)

\* C29: when solve returns a Solution that completes all required
\* sequences, no proper non-empty prefix of the returned path already
\* contains every required sequence
C29_StopsAtFirstCompletion ==
    (Done /\ Complete(result)) =>
        \A n \in 1..(Len(result.path) - 1) :
            ~CompletesAll(SubSeq(Values(result.path), 1, n))

\* a complete Solution of two or more cells
C29_Witness ==
    /\ Done
    /\ Complete(result)
    /\ Len(requiredSequences) >= 1
    /\ Len(result.path) >= 2

\* the cells a legal path p can continue with
NextCells(p) ==
    {x \in (0..(size - 1)) \X (0..(size - 1)) :
        /\ \A k \in 1..Len(p) : p[k] # x
        /\ IF Len(p) % 2 = 1 THEN x[2] = p[Len(p)][2]
                             ELSE x[1] = p[Len(p)][1]}

\* the legal path p fills the buffer or completes all required sequences,
\* or some continuation of it does
RECURSIVE CanFinish(_)
CanFinish(p) ==
    \/ Len(p) >= bufferSize
    \/ CompletesAll(CellValues(p))
    \/ \E x \in NextCells(p) : CanFinish(Append(p, x))

====
